---------------------------- MODULE Spec2Model ----------------------------
(***************************************************************************)
(* A model of confmap (src/src/lib.rs): the process-wide configuration     *)
(* table CONFIGS behind one mutex, the two unsynchronised globals          *)
(* CONFIG_NAME and CONFIG_PATH, read_config's file resolution, parse and   *)
(* merge, and the typed accessors.                                         *)
(*                                                                         *)
(* Strings the code concatenates or inspects (paths, file names) are       *)
(* sequences of one-character strings.  64-bit integers are four 16-bit    *)
(* limbs, least significant first, in two's complement.                    *)
(***************************************************************************)
EXTENDS Integers, Sequences, FiniteSets, TLC

VARIABLES
    CONFIG_NAME,   \* static mut CONFIG_NAME: String
    CONFIG_PATH,   \* static mut CONFIG_PATH: String
    CONFIGS,       \* the Map<String, Value> inside the mutex
    fs,            \* the files the process can see: location -> entry
    exe,           \* whether current_exe() and read_dir(its parent) succeed
    call,          \* the last completed call of the single-threaded client
    mutex,         \* the thread holding CONFIGS' lock, or NoThread
    th             \* per thread: position and locals of its current call

vars == <<CONFIG_NAME, CONFIG_PATH, CONFIGS, fs, exe, call, mutex, th>>

---------------------------------------------------------------------------
(* Bounds of the model. *)

\* Longest JSON array drawn for the accessors.
MaxArrayLen == 3

\* How many of the file contents of Library the environment may write.
NumContents == 7

\* Threads of the concurrent specification.
NumThreads == 2

---------------------------------------------------------------------------
(* Option<T>, and the outcome of a call. *)

None == [some |-> FALSE, v |-> <<>>]
Some(x) == [some |-> TRUE, v |-> x]

Returned == "returned"
Panicked == "panicked"

---------------------------------------------------------------------------
(* 64-bit integers as limbs. *)

Base == 2 ^ 16
Half == 2 ^ 15

\* the u64 / i64 bit pattern of a magnitude below 2^64
Low64(mag) == <<mag[1], mag[2], mag[3], mag[4]>>

Zero64 == <<0, 0, 0, 0>>

\* bitwise complement plus one, modulo 2^64
Neg64(w) ==
    LET n1 == (Base - w[1]) % Base
        c1 == IF w[1] = 0 THEN 1 ELSE 0
        s2 == (Base - 1 - w[2]) + c1
        n2 == s2 % Base
        c2 == s2 \div Base
        s3 == (Base - 1 - w[3]) + c2
        n3 == s3 % Base
        c3 == s3 \div Base
        s4 == (Base - 1 - w[4]) + c3
        n4 == s4 % Base
    IN  <<n1, n2, n3, n4>>

---------------------------------------------------------------------------
(* serde_json::Value, and the JSON text it is parsed from.                 *)
(*                                                                         *)
(* A literal of the text is [t, v]: t in null, bool, str, num, arr, obj;   *)
(* a number literal's v is [neg, mag, frac]: its sign, its magnitude as    *)
(* five limbs (so that literals beyond u64 exist) and whether it has a     *)
(* fraction or exponent.  An object literal's v is the sequence of its     *)
(* <<key, literal>> members in text order, repeated keys included.         *)

VNull == [t |-> "Null", v |-> <<>>]
VBool(b) == [t |-> "Bool", v |-> b]
VString(s) == [t |-> "String", v |-> s]
VNumber(n) == [t |-> "Number", v |-> n]
VArray(a) == [t |-> "Array", v |-> a]
VObject(m) == [t |-> "Object", v |-> m]

\* serde_json::Number's three representations
PosInt(w) == [n |-> "PosInt", w |-> w]
NegInt(w) == [n |-> "NegInt", w |-> w]
Float(neg, mag, frac) == [n |-> "Float", w |-> <<neg, mag, frac>>]

EmptyMap == [k \in {} |-> VNull]

MapInsert(m, k, x) == [y \in (DOMAIN m) \cup {k} |-> IF y = k THEN x ELSE m[y]]

\* A number literal as serde_json reads it (default features): a literal with a
\* fraction or exponent is a Float; a non-negative integer is a PosInt when it
\* fits u64; a negative one is a NegInt when it fits i64, and -0 is a Float;
\* any other integer literal becomes a Float.
ParseNumber(l) ==
    IF l.frac THEN Float(l.neg, l.mag, TRUE)
    ELSE IF l.mag[5] # 0 THEN Float(l.neg, l.mag, FALSE)
    ELSE IF ~l.neg THEN PosInt(Low64(l.mag))
    ELSE IF Low64(l.mag) = Zero64 THEN Float(TRUE, l.mag, FALSE)
    ELSE IF l.mag[4] < Half \/ Low64(l.mag) = <<0, 0, 0, Half>>
         THEN NegInt(Neg64(Low64(l.mag)))
    ELSE Float(TRUE, l.mag, FALSE)

RECURSIVE ParseValue(_)
RECURSIVE ParseElems(_, _)
RECURSIVE ParseMembers(_, _, _)

\* mutant of ParseMembers: a repeated key keeps its first value
RECURSIVE ParseMembersKeepFirst(_, _, _)
ParseMembersKeepFirst(members, i, m) ==
    IF i > Len(members) THEN m
    ELSE ParseMembersKeepFirst(members, i + 1,
                               IF members[i][1] \in DOMAIN m THEN m
                               ELSE MapInsert(m, members[i][1], ParseValue(members[i][2])))

\* the elements of an array literal, from the i-th on
ParseElems(elems, i) ==
    IF i > Len(elems) THEN <<>>
    ELSE <<ParseValue(elems[i])>> \o ParseElems(elems, i + 1)

\* the members of an object literal, from the i-th on, inserted into m in text
\* order: a repeated key keeps its last value
ParseMembers(members, i, m) ==
    IF i > Len(members) THEN m
    ELSE ParseMembers(members, i + 1,
                      MapInsert(m, members[i][1], ParseValue(members[i][2])))

ParseValue(l) ==
    CASE l.t = "null" -> VNull
      [] l.t = "bool" -> VBool(l.v)
      [] l.t = "str" -> VString(l.v)
      [] l.t = "num" -> VNumber(ParseNumber(l.v))
      [] l.t = "arr" -> VArray(ParseElems(l.v, 1))
      [] l.t = "obj" -> VObject(ParseMembers(l.v, 1, EmptyMap))

\* Result<T, E>
Ok(x) == [ok |-> TRUE, v |-> x]
Err == [ok |-> FALSE, v |-> <<>>]

\* mutant of from_str: a malformed text yields the members read before the error
from_str_lenient(text) ==
    IF text.t \in {"obj", "bad"} THEN Ok(ParseMembers(text.v, 1, EmptyMap)) ELSE Err

\* serde_json::from_str::<Map<String, Value>>: the text must be one well-formed
\* JSON value, and that value an object.  A malformed text is [t |-> "bad"], its
\* v the members read before the error.
from_str(text) ==
    IF text.t = "obj" THEN Ok(ParseMembers(text.v, 1, EmptyMap)) ELSE Err

---------------------------------------------------------------------------
(* The conversions of serde_json the accessors call. *)

\* mutant of as_str: a number or a boolean is rendered as a string
as_str_coercing(x) ==
    IF x.t = "String" THEN Some(x.v)
    ELSE IF x.t \in {"Number", "Bool"} THEN Some("coerced") ELSE None

as_str(x) == IF x.t = "String" THEN Some(x.v) ELSE None

as_bool(x) == IF x.t = "Bool" THEN Some(x.v) ELSE None

as_object(x) == IF x.t = "Object" THEN Some(x.v) ELSE None

\* Number::as_i64: a PosInt above i64::MAX and a Float have none
as_i64(n) ==
    CASE n.n = "PosInt" -> IF n.w[4] < Half THEN Some(n.w) ELSE None
      [] n.n = "NegInt" -> Some(n.w)
      [] n.n = "Float" -> None

\* Number::as_f64: every number has one; an f64 is kept as sign, magnitude and
\* whether it came from a literal with a fraction
as_f64(n) ==
    CASE n.n = "PosInt" -> Some([f64 |-> <<FALSE, n.w \o <<0>>, FALSE>>])
      [] n.n = "NegInt" -> Some([f64 |-> <<TRUE, Neg64(n.w) \o <<0>>, FALSE>>])
      [] n.n = "Float" -> Some([f64 |-> n.w])

\* `x as f32`
CastF32(x) == [f32 |-> x.f64]

\* mutant of CastI8: a saturating conversion
CastI8Saturating(w) ==
    IF w[4] >= Half
    THEN IF w[2] = Base - 1 /\ w[3] = Base - 1 /\ w[4] = Base - 1 /\ w[1] >= Base - 128
         THEN w[1] - Base ELSE -128
    ELSE IF w[2] = 0 /\ w[3] = 0 /\ w[4] = 0 /\ w[1] < 128 THEN w[1] ELSE 127

\* `n as i8`, `n as i16`, `n as i32` of an i64: the low bits, read as signed
CastI8(w) ==
    LET b == w[1] % 256 IN IF b >= 128 THEN b - 256 ELSE b

CastI16(w) == IF w[1] >= Half THEN w[1] - Base ELSE w[1]

CastI32(w) ==
    LET hi == IF w[2] >= Half THEN w[2] - Base ELSE w[2] IN hi * Base + w[1]

\* Option::map
MapI8(o) == IF o.some THEN Some(CastI8(o.v)) ELSE None
MapI16(o) == IF o.some THEN Some(CastI16(o.v)) ELSE None
MapI32(o) == IF o.some THEN Some(CastI32(o.v)) ELSE None
MapF32(o) == IF o.some THEN Some(CastF32(o.v)) ELSE None

---------------------------------------------------------------------------
(* The accessors, as functions of the locked map and the key. *)

get(configs, key) ==
    IF key \in DOMAIN configs THEN Some(configs[key]) ELSE None

get_string(configs, key) ==
    IF key \in DOMAIN configs THEN as_str(configs[key]) ELSE None

get_bool(configs, key) ==
    IF key \in DOMAIN configs THEN as_bool(configs[key]) ELSE None

get_map(configs, key) ==
    IF key \in DOMAIN configs THEN as_object(configs[key]) ELSE None

get_int64(configs, key) ==
    IF key \in DOMAIN configs
    THEN IF configs[key].t = "Number" THEN as_i64(configs[key].v) ELSE None
    ELSE None

get_i32(configs, key) ==
    IF key \in DOMAIN configs
    THEN IF configs[key].t = "Number" THEN MapI32(as_i64(configs[key].v)) ELSE None
    ELSE None

get_i16(configs, key) ==
    IF key \in DOMAIN configs
    THEN IF configs[key].t = "Number" THEN MapI16(as_i64(configs[key].v)) ELSE None
    ELSE None

get_int8(configs, key) ==
    IF key \in DOMAIN configs
    THEN IF configs[key].t = "Number" THEN MapI8(as_i64(configs[key].v)) ELSE None
    ELSE None

get_float64(configs, key) ==
    IF key \in DOMAIN configs
    THEN IF configs[key].t = "Number" THEN as_f64(configs[key].v) ELSE None
    ELSE None

get_float32(configs, key) ==
    IF key \in DOMAIN configs
    THEN IF configs[key].t = "Number" THEN MapF32(as_f64(configs[key].v)) ELSE None
    ELSE None

\* the element loops of the four array accessors: the vector after the
\* elements from the i-th on were visited
\* mutant of StringLoop: the loop ends at the first element that is no string
RECURSIVE StringLoopBreak(_, _, _)
StringLoopBreak(arr, i, string_array) ==
    IF i > Len(arr) \/ arr[i].t # "String" THEN string_array
    ELSE StringLoopBreak(arr, i + 1, Append(string_array, arr[i].v))

RECURSIVE StringLoop(_, _, _)
StringLoop(arr, i, string_array) ==
    IF i > Len(arr) THEN string_array
    ELSE StringLoop(arr, i + 1,
                    IF arr[i].t = "String"
                    THEN Append(string_array, arr[i].v) ELSE string_array)

RECURSIVE Int64Loop(_, _, _)
Int64Loop(arr, i, int64_array) ==
    IF i > Len(arr) THEN int64_array
    ELSE Int64Loop(arr, i + 1,
                   IF arr[i].t = "Number" /\ as_i64(arr[i].v).some
                   THEN Append(int64_array, as_i64(arr[i].v).v) ELSE int64_array)

RECURSIVE Float64Loop(_, _, _)
Float64Loop(arr, i, float64_array) ==
    IF i > Len(arr) THEN float64_array
    ELSE Float64Loop(arr, i + 1,
                     IF arr[i].t = "Number" /\ as_f64(arr[i].v).some
                     THEN Append(float64_array, as_f64(arr[i].v).v)
                     ELSE float64_array)

RECURSIVE ObjectLoop(_, _, _)
ObjectLoop(arr, i, array) ==
    IF i > Len(arr) THEN array
    ELSE ObjectLoop(arr, i + 1,
                    IF arr[i].t = "Object" THEN Append(array, arr[i]) ELSE array)

get_string_array(configs, key) ==
    IF key \in DOMAIN configs
    THEN IF configs[key].t = "Array"
         THEN Some(StringLoop(configs[key].v, 1, <<>>)) ELSE None
    ELSE None

get_int64_array(configs, key) ==
    IF key \in DOMAIN configs
    THEN IF configs[key].t = "Array"
         THEN Some(Int64Loop(configs[key].v, 1, <<>>)) ELSE None
    ELSE None

get_float64_array(configs, key) ==
    IF key \in DOMAIN configs
    THEN IF configs[key].t = "Array"
         THEN Some(Float64Loop(configs[key].v, 1, <<>>)) ELSE None
    ELSE None

get_array(configs, key) ==
    IF key \in DOMAIN configs
    THEN IF configs[key].t = "Array"
         THEN Some(ObjectLoop(configs[key].v, 1, <<>>)) ELSE None
    ELSE None

Accessors ==
    {"get", "get_string", "get_string_array", "get_int64", "get_int64_array",
     "get_i32", "get_i16", "get_int8", "get_float64", "get_float64_array",
     "get_float32", "get_bool", "get_array", "get_map"}

\* the accessor named fn, applied
Access(fn, configs, key) ==
    CASE fn = "get" -> get(configs, key)
      [] fn = "get_string" -> get_string(configs, key)
      [] fn = "get_string_array" -> get_string_array(configs, key)
      [] fn = "get_int64" -> get_int64(configs, key)
      [] fn = "get_int64_array" -> get_int64_array(configs, key)
      [] fn = "get_i32" -> get_i32(configs, key)
      [] fn = "get_i16" -> get_i16(configs, key)
      [] fn = "get_int8" -> get_int8(configs, key)
      [] fn = "get_float64" -> get_float64(configs, key)
      [] fn = "get_float64_array" -> get_float64_array(configs, key)
      [] fn = "get_float32" -> get_float32(configs, key)
      [] fn = "get_bool" -> get_bool(configs, key)
      [] fn = "get_array" -> get_array(configs, key)
      [] fn = "get_map" -> get_map(configs, key)

---------------------------------------------------------------------------
(* Paths and the file system. *)

Sep == "/"

\* str::ends_with, for a one-character pattern
ends_with(s, c) == Len(s) > 0 /\ s[Len(s)] = c

Max(S) == CHOOSE x \in S : \A y \in S : y <= x

RECURSIVE TrimSeps(_)
\* a directory string without its trailing separators
TrimSeps(s) == IF ends_with(s, Sep) THEN TrimSeps(SubSeq(s, 1, Len(s) - 1)) ELSE s

\* the directory of the running executable, and the working directory a
\* relative path is resolved in
ExeDir == <<"e">>
Cwd == <<"c">>

\* The directory and the file name a path string names: the name follows the
\* last separator, repeated separators count once, and a path without a
\* separator is relative to the working directory.
Locate(p) ==
    LET seps == {i \in 1 .. Len(p) : p[i] = Sep}
    IN  IF seps = {} THEN <<Cwd, p>>
        ELSE <<TrimSeps(SubSeq(p, 1, Max(seps) - 1)),
               SubSeq(p, Max(seps) + 1, Len(p))>>

\* a directory entry: nothing, a directory, or a regular file and its content
NoContent == [readable |-> FALSE, text |-> [t |-> "null", v |-> <<>>]]
NoEntry == [e |-> "none", c |-> NoContent]
DirEntry == [e |-> "dir", c |-> NoContent]
FileEntry(content) == [e |-> "file", c |-> content]

\* the entry at a path string
Lookup(fsys, p) == IF Locate(p) \in DOMAIN fsys THEN fsys[Locate(p)] ELSE NoEntry

\* Path::exists() && Path::is_file()
is_file(fsys, p) == Lookup(fsys, p).e = "file"

\* the file names fs::read_dir yields for a directory
read_dir(fsys, dir) ==
    {loc[2] : loc \in {l \in DOMAIN fsys : l[1] = dir /\ fsys[l].e # "none"}}

---------------------------------------------------------------------------
(* The file contents of the model: [readable, text], text a JSON literal,  *)
(* or [t |-> "bad"] for a text that is not well-formed JSON.               *)

LNull == [t |-> "null", v |-> <<>>]
LBool(b) == [t |-> "bool", v |-> b]
LStr(s) == [t |-> "str", v |-> s]
LNum(neg, mag, frac) == [t |-> "num", v |-> [neg |-> neg, mag |-> mag, frac |-> frac]]
LArr(elems) == [t |-> "arr", v |-> elems]
LObj(members) == [t |-> "obj", v |-> members]
LBad(members) == [t |-> "bad", v |-> members]

\* a small non-negative integer literal
LInt(n) == LNum(FALSE, <<n, 0, 0, 0, 0>>, FALSE)

Text(text) == [readable |-> TRUE, text |-> text]
Unreadable == NoContent

Library ==
    << \* the object of the crate's test and of the spec's first example
       Text(LObj(<< <<"a", LStr("x")>>, <<"b", LInt(43)>>,
                    <<"c", LArr(<<LStr("p"), LStr("q")>>)>> >>)),
       \* a second version of it: "a" changed, "d" added
       Text(LObj(<< <<"a", LStr("y")>>, <<"d", LBool(TRUE)>> >>)),
       \* a text cut after its first member
       Text(LBad(<< <<"a", LStr("z")>> >>)),
       \* a well-formed text whose top-level value is an array
       Text(LArr(<<LStr("p")>>)),
       \* a file that cannot be read as UTF-8 text
       Unreadable,
       \* an object with a repeated key and a mixed array
       Text(LObj(<< <<"b", LInt(1)>>, <<"b", LStr("w")>>,
                    <<"c", LArr(<<LStr("p"), LInt(1), LStr("q")>>)>> >>)),
       \* the empty object
       Text(LObj(<<>>)),
       \* null and an integer above i64::MAX
       Text(LObj(<< <<"d", LNull>>,
                    <<"b", LNum(FALSE, <<0, 0, 0, Half, 0>>, FALSE)>> >>)),
       Text(LNull) >>

\* the entries the environment makes, numbered: nothing, a directory, or a
\* regular file holding one of the first NumContents contents of Library
EntryIds == 0 .. (NumContents + 1)
EntryOf(j) ==
    IF j = 0 THEN NoEntry ELSE IF j = 1 THEN DirEntry ELSE FileEntry(Library[j - 1])

\* fs::read_to_string of a path
read_to_string(fsys, p) ==
    IF Lookup(fsys, p).e = "file" /\ Lookup(fsys, p).c.readable
    THEN Ok(Lookup(fsys, p).c.text)
    ELSE Err

---------------------------------------------------------------------------
(* ConfigSerde::read_config and init_lazy_configs. *)

\* the keys of the model, in the order a Map iterates them
KeyOrder == <<"a", "b", "c", "d">>
Keys == {KeyOrder[i] : i \in 1 .. Len(KeyOrder)}

\* ConfigSerde::read_config: read, parse, and clone every pair
Serde_read_config(fsys, config_path) ==
    LET config == read_to_string(fsys, config_path)
    IN  IF ~config.ok THEN Err ELSE from_str(config.v)

\* mutant of InsertLoop: a key already in the table keeps its value
RECURSIVE InsertLoopKeepOld(_, _, _)
InsertLoopKeepOld(configs, i, input) ==
    IF i > Len(KeyOrder) THEN input
    ELSE InsertLoopKeepOld(configs, i + 1,
                           IF KeyOrder[i] \in DOMAIN configs /\ KeyOrder[i] \notin DOMAIN input
                           THEN MapInsert(input, KeyOrder[i], configs[KeyOrder[i]])
                           ELSE input)

RECURSIVE InsertLoop(_, _, _)
\* `for (k, v) in configs.iter() { input.insert(k, v) }`, from the i-th key on
InsertLoop(configs, i, input) ==
    IF i > Len(KeyOrder) THEN input
    ELSE InsertLoop(configs, i + 1,
                    IF KeyOrder[i] \in DOMAIN configs
                    THEN MapInsert(input, KeyOrder[i], configs[KeyOrder[i]])
                    ELSE input)

\* what init_lazy_configs does with a read result
MergeResult(res, input) == IF res.ok THEN InsertLoop(res.v, 1, input) ELSE input

\* init_lazy_configs: the map after it, given the globals it reads
init_lazy_configs(fsys, path, name, input) ==
    MergeResult(Serde_read_config(fsys, path \o name), input)

---------------------------------------------------------------------------
(* The public operations on the globals. *)

\* mutant of NormalizedPath: the separator is appended to every path
NormalizedPathAppendAlways(path) == path \o <<Sep>>

\* add_config_path (target_family = "unix"): the path, ending with a separator
NormalizedPath(path) == IF ends_with(path, Sep) THEN path ELSE path \o <<Sep>>

ExeStates == {"ok", "no_exe", "no_dir"}

\* `is_found` after the check of CONFIG_PATH + CONFIG_NAME
DirectFound(fsys, path, name) == is_file(fsys, path \o name)

\* whether the scan of the executable's directory meets an entry named `name`
ScanMatch(fsys, name) == name \in read_dir(fsys, ExeDir)

\* mutant of ResolvedPath: the executable's directory is scanned first
ResolvedPathScanFirst(fsys, path, name) ==
    IF ScanMatch(fsys, name) THEN ExeDir \o <<Sep>> ELSE path

\* CONFIG_PATH after the resolution: the scan runs only when the direct check
\* failed, and overwrites the path on a match
ResolvedPath(fsys, path, name) ==
    IF ~DirectFound(fsys, path, name) /\ ScanMatch(fsys, name)
    THEN ExeDir \o <<Sep>>
    ELSE path

\* `is_found` when the resolution is over
IsFound(fsys, path, name) == DirectFound(fsys, path, name) \/ ScanMatch(fsys, name)

\* the I/O calls of read_config, in order
IoCurrentExe == <<"current_exe", <<>>>>
IoReadDir == <<"read_dir", ExeDir>>
IoExists(p) == <<"exists", p>>
IoScan == <<"scan", ExeDir>>
IoRead(p) == <<"read_to_string", p>>

ReadConfigIo(fsys, path, name) ==
    <<IoCurrentExe, IoReadDir, IoExists(path \o name)>>
    \o (IF DirectFound(fsys, path, name) THEN <<>> ELSE <<IoScan>>)
    \o (IF IsFound(fsys, path, name)
        THEN <<IoRead(ResolvedPath(fsys, path, name) \o name)>> ELSE <<>>)

\* the table after read_config found its file
LoadedConfigs(fsys, path, name, configs) ==
    init_lazy_configs(fsys, ResolvedPath(fsys, path, name), name, configs)

\* mutant of ReadConfigResult: no check that CONFIG_NAME is set
ReadConfigResultNoGuard(name, path, configs, fsys, exeState) ==
    IF exeState = "no_exe"
    THEN [outcome |-> Panicked, path |-> path, configs |-> configs,
          io |-> <<IoCurrentExe>>]
    ELSE IF exeState = "no_dir"
    THEN [outcome |-> Panicked, path |-> path, configs |-> configs,
          io |-> <<IoCurrentExe, IoReadDir>>]
    ELSE [outcome |-> Returned,
          path |-> ResolvedPath(fsys, path, name),
          configs |-> IF IsFound(fsys, path, name)
                      THEN LoadedConfigs(fsys, path, name, configs)
                      ELSE configs,
          io |-> ReadConfigIo(fsys, path, name)]

\* read_config as one call of a single-threaded client: how it ends, the
\* globals after it, and its I/O
ReadConfigResult(name, path, configs, fsys, exeState) ==
    IF name = <<>>
    THEN [outcome |-> Returned, path |-> path, configs |-> configs, io |-> <<>>]
    ELSE IF exeState = "no_exe"
    THEN [outcome |-> Panicked, path |-> path, configs |-> configs,
          io |-> <<IoCurrentExe>>]
    ELSE IF exeState = "no_dir"
    THEN [outcome |-> Panicked, path |-> path, configs |-> configs,
          io |-> <<IoCurrentExe, IoReadDir>>]
    ELSE [outcome |-> Returned,
          path |-> ResolvedPath(fsys, path, name),
          configs |-> IF IsFound(fsys, path, name)
                      THEN LoadedConfigs(fsys, path, name, configs)
                      ELSE configs,
          io |-> ReadConfigIo(fsys, path, name)]

---------------------------------------------------------------------------
(* The single-threaded client: Spec. *)

NoThread == 0
Threads == 1 .. NumThreads
\* a thread's position and the locals of the call it is in: the path whose
\* existence read_config established, the path read under the lock, the
\* parsed pairs and the index of the next one to insert, and an accessor's
\* name, key and result
ThreadAt(pc, checked, read, configs, i, fn, key, ret) ==
    [pc |-> pc, checked |-> checked, read |-> read, configs |-> configs,
     i |-> i, fn |-> fn, key |-> key, ret |-> ret]
IdleThread == ThreadAt("idle", <<>>, <<>>, EmptyMap, 0, "", "", None)

\* the file names and directory arguments the client uses
Names == {<<>>, <<"f">>, <<"g">>}
PathArgs == {<<>>, <<"c">>, <<"c", Sep>>, <<"e">>, <<"n">>}

\* the places of the file system that change
Locs == {<<Cwd, <<"f">>>>, <<ExeDir, <<"f">>>>}

Call(fn, arg, outcome, io, ret) ==
    [fn |-> fn, arg |-> arg, outcome |-> outcome, io |-> io, ret |-> ret]
NoCall == Call("none", <<>>, Returned, <<>>, None)
EnvCall == Call("env", <<>>, Returned, <<>>, None)

Init ==
    /\ CONFIG_NAME = <<>>
    /\ CONFIG_PATH = <<>>
    /\ CONFIGS = EmptyMap
    /\ \E ids \in [Locs -> EntryIds] : fs = [loc \in Locs |-> EntryOf(ids[loc])]
    /\ exe \in ExeStates
    /\ call = NoCall
    /\ mutex = NoThread
    /\ th = [t \in Threads |-> IdleThread]

set_config_name(config_name) ==
    /\ CONFIG_NAME' = config_name
    /\ call' = Call("set_config_name", config_name, Returned, <<>>, None)
    /\ UNCHANGED <<CONFIG_PATH, CONFIGS, fs, exe, mutex, th>>

add_config_path(path) ==
    /\ CONFIG_PATH' = NormalizedPath(path)
    /\ call' = Call("add_config_path", path, Returned, <<>>, None)
    /\ UNCHANGED <<CONFIG_NAME, CONFIGS, fs, exe, mutex, th>>

read_config ==
    LET r == ReadConfigResult(CONFIG_NAME, CONFIG_PATH, CONFIGS, fs, exe)
    IN  /\ CONFIG_PATH' = r.path
        /\ CONFIGS' = r.configs
        /\ call' = Call("read_config", <<>>, r.outcome, r.io, None)
        /\ UNCHANGED <<CONFIG_NAME, fs, exe, mutex, th>>

\* the environment creates, replaces or removes a file or directory
FsChange(loc, j) ==
    /\ fs' = [fs EXCEPT ![loc] = EntryOf(j)]
    /\ call' = EnvCall
    /\ UNCHANGED <<CONFIG_NAME, CONFIG_PATH, CONFIGS, exe, mutex, th>>

Next ==
    \/ \E n \in Names : set_config_name(n)
    \/ \E p \in PathArgs : add_config_path(p)
    \/ read_config
    \/ \E loc \in Locs, j \in EntryIds : FsChange(loc, j)

Spec == Init /\ [][Next]_vars

---------------------------------------------------------------------------
(* The accessors on a loaded table: SpecAcc.  The table is the one         *)
(* read_config leaves after loading a file {"a": <literal>}, the literal   *)
(* drawn from scalars, numbers around every width's limits, and arrays of  *)
(* mixed elements; every accessor is then called with a present and an     *)
(* absent key.                                                             *)

\* limbs around the limits of 8, 16, 32 and 64 bits
Limbs1 == {0, 1, 43, 127, 128, 255, 256, 300, Half - 1, Half, Base - 1}
Limbs2 == {0, Half - 1, Half, Base - 1}
Limbs3 == {0, Base - 1}
Limbs4 == {0, Half - 1, Half, Base - 1}
Limbs5 == {0, 1}

ScalarLits ==
    <<LNull, LBool(TRUE), LBool(FALSE), LStr("x"), LStr("43"),
      LObj(<< <<"k", LInt(1)>> >>), LObj(<<>>)>>

ElemLits ==
    <<LStr("p"), LStr("q"), LInt(1),
      LNum(FALSE, <<0, 0, 0, Half, 0>>, FALSE),   \* 2^63
      LNum(FALSE, <<1, 0, 0, 0, 0>>, TRUE),       \* a number with a fraction
      LObj(<< <<"k", LInt(1)>> >>), LNull>>

AccKeys == {"a", "b"}

\* the state after set_config_name("f"), add_config_path("c") and
\* read_config() with the given text at c/f
LoadedState(text) ==
    LET fsys == [loc \in Locs |->
                    IF loc = <<Cwd, <<"f">>>> THEN FileEntry(Text(text)) ELSE NoEntry]
        r == ReadConfigResult(<<"f">>, <<"c", Sep>>, EmptyMap, fsys, "ok")
    IN  /\ CONFIG_NAME = <<"f">>
        /\ CONFIG_PATH = r.path
        /\ CONFIGS = r.configs
        /\ fs = fsys
        /\ exe = "ok"
        /\ call = Call("read_config", <<>>, r.outcome, r.io, None)
        /\ mutex = NoThread
        /\ th = [t \in Threads |-> IdleThread]

InitAcc ==
    \/ \E i \in 1 .. Len(ScalarLits) : LoadedState(LObj(<< <<"a", ScalarLits[i]>> >>))
    \/ \E neg \in BOOLEAN, frac \in BOOLEAN, l1 \in Limbs1, l2 \in Limbs2,
          l3 \in Limbs3, l4 \in Limbs4, l5 \in Limbs5 :
          LoadedState(LObj(<< <<"a", LNum(neg, <<l1, l2, l3, l4, l5>>, frac)>> >>))
    \/ \E n \in 0 .. MaxArrayLen : \E ix \in [1 .. n -> 1 .. Len(ElemLits)] :
          LoadedState(LObj(<< <<"a", LArr([k \in 1 .. n |-> ElemLits[ix[k]]])>> >>))

\* one call of an accessor: lock, look the key up, convert, unlock
AccessorCall(fn, key) ==
    /\ call' = Call(fn, key, Returned, <<>>, Access(fn, CONFIGS, key))
    /\ UNCHANGED <<CONFIG_NAME, CONFIG_PATH, CONFIGS, fs, exe, mutex, th>>

NextAcc == \E fn \in Accessors, key \in AccKeys : AccessorCall(fn, key)

SpecAcc == InitAcc /\ [][NextAcc]_vars

---------------------------------------------------------------------------
(* Threads calling the operations concurrently: SpecMT.  A call advances   *)
(* one shared-memory access or one lock operation at a time.  The guard    *)
(* that read_config takes lives until init_lazy_configs has returned.      *)

MTNames == {<<"f">>}
MTPathArgs == {<<"c">>, <<"n">>}
MTAccessors == {"get"}
MTKeys == {"a", "d"}

InitMT ==
    /\ CONFIG_NAME = <<>>
    /\ CONFIG_PATH = <<>>
    /\ CONFIGS = EmptyMap
    /\ \E j \in {0, 3} :
          fs = [loc \in Locs |->
                   IF loc = <<Cwd, <<"f">>>> THEN EntryOf(2) ELSE EntryOf(j)]
    /\ exe \in ExeStates
    /\ call = NoCall
    /\ mutex = NoThread
    /\ th = [t \in Threads |-> IdleThread]

At(t, pc) == th[t].pc = pc
Goto(t, pc) == th' = [th EXCEPT ![t].pc = pc]

T_set_config_name(t, config_name) ==
    /\ At(t, "idle")
    /\ CONFIG_NAME' = config_name
    /\ UNCHANGED <<CONFIG_PATH, CONFIGS, fs, exe, call, mutex, th>>

T_add_config_path(t, path) ==
    /\ At(t, "idle")
    /\ CONFIG_PATH' = NormalizedPath(path)
    /\ UNCHANGED <<CONFIG_NAME, CONFIGS, fs, exe, call, mutex, th>>

\* read_config: `if !CONFIG_NAME.is_empty()`
T_read_config(t) ==
    /\ At(t, "idle")
    /\ IF CONFIG_NAME = <<>> THEN UNCHANGED th ELSE Goto(t, "rc_exe")
    /\ UNCHANGED <<CONFIG_NAME, CONFIG_PATH, CONFIGS, fs, exe, call, mutex>>

\* current_exe().expect(..) and read_dir(..).unwrap(): a failure panics, and
\* the thread ends holding nothing
T_current_exe(t) ==
    /\ At(t, "rc_exe")
    /\ Goto(t, IF exe = "ok" THEN "rc_check" ELSE "panicked")
    /\ UNCHANGED <<CONFIG_NAME, CONFIG_PATH, CONFIGS, fs, exe, call, mutex>>

\* the check of CONFIG_PATH + CONFIG_NAME
T_check(t) ==
    /\ At(t, "rc_check")
    /\ th' = [th EXCEPT
                ![t].pc = IF DirectFound(fs, CONFIG_PATH, CONFIG_NAME)
                          THEN "rc_lock" ELSE "rc_scan",
                ![t].checked = IF DirectFound(fs, CONFIG_PATH, CONFIG_NAME)
                               THEN CONFIG_PATH \o CONFIG_NAME ELSE <<>>]
    /\ UNCHANGED <<CONFIG_NAME, CONFIG_PATH, CONFIGS, fs, exe, call, mutex>>

\* the scan of the executable's directory
T_scan(t) ==
    /\ At(t, "rc_scan")
    /\ IF ScanMatch(fs, CONFIG_NAME)
       THEN /\ CONFIG_PATH' = ExeDir \o <<Sep>>
            /\ th' = [th EXCEPT ![t].pc = "rc_lock",
                                ![t].checked = ExeDir \o <<Sep>> \o CONFIG_NAME]
       ELSE /\ th' = [th EXCEPT ![t] = IdleThread]
            /\ UNCHANGED CONFIG_PATH
    /\ UNCHANGED <<CONFIG_NAME, CONFIGS, fs, exe, call, mutex>>

\* mutant of LockFree: lock() returns whether or not the mutex is held
LockAlwaysFree(m) == TRUE

\* Mutex::lock blocks the caller until no thread holds the mutex
LockFree(m) == m = NoThread

\* mutant of MutexAfterDrop: the guard is leaked, the mutex stays held
MutexLeaked(t) == t

\* the holder of the mutex after the guard of thread t is dropped
MutexAfterDrop(t) == NoThread

\* CONFIGS.lock().unwrap()
T_lock(t) ==
    /\ At(t, "rc_lock")
    /\ LockFree(mutex)
    /\ mutex' = t
    /\ Goto(t, "rc_load")
    /\ UNCHANGED <<CONFIG_NAME, CONFIG_PATH, CONFIGS, fs, exe, call>>

\* init_lazy_configs: the path is built from the globals again, then read
\* and parsed
T_load(t) ==
    /\ At(t, "rc_load")
    /\ LET path == CONFIG_PATH \o CONFIG_NAME
           res == Serde_read_config(fs, path)
       IN  th' = [th EXCEPT ![t].pc = IF res.ok THEN "rc_insert" ELSE "rc_unlock",
                            ![t].read = path,
                            ![t].configs = IF res.ok THEN res.v ELSE EmptyMap,
                            ![t].i = 1]
    /\ UNCHANGED <<CONFIG_NAME, CONFIG_PATH, CONFIGS, fs, exe, call, mutex>>

\* mutant of MutexDuringMerge: the lock is dropped after every insertion
MutexDroppedPerInsert(t) == NoThread

\* the holder of the lock between two insertions of the merge: the guard is
\* a temporary of the statement that calls init_lazy_configs
MutexDuringMerge(t) == t

\* one turn of `for (k, v) in configs.iter() { input.insert(..) }`
T_insert(t) ==
    /\ At(t, "rc_insert")
    /\ LET k == KeyOrder[th[t].i]
       IN  CONFIGS' = IF k \in DOMAIN th[t].configs
                      THEN MapInsert(CONFIGS, k, th[t].configs[k]) ELSE CONFIGS
    /\ th' = [th EXCEPT ![t].i = th[t].i + 1,
                        ![t].pc = IF th[t].i = Len(KeyOrder)
                                  THEN "rc_unlock" ELSE "rc_insert"]
    /\ mutex' = MutexDuringMerge(t)
    /\ UNCHANGED <<CONFIG_NAME, CONFIG_PATH, fs, exe, call>>

\* the guard is dropped when the statement ends
T_unlock(t) ==
    /\ At(t, "rc_unlock")
    /\ mutex' = MutexAfterDrop(t)
    /\ th' = [th EXCEPT ![t] = IdleThread]
    /\ UNCHANGED <<CONFIG_NAME, CONFIG_PATH, CONFIGS, fs, exe, call>>

\* an accessor is called
T_accessor(t, fn, key) ==
    /\ At(t, "idle")
    /\ th' = [th EXCEPT ![t].pc = "acc_lock", ![t].fn = fn, ![t].key = key]
    /\ UNCHANGED <<CONFIG_NAME, CONFIG_PATH, CONFIGS, fs, exe, call, mutex>>

T_acc_lock(t) ==
    /\ At(t, "acc_lock")
    /\ LockFree(mutex)
    /\ mutex' = t
    /\ Goto(t, "acc_read")
    /\ UNCHANGED <<CONFIG_NAME, CONFIG_PATH, CONFIGS, fs, exe, call>>

T_acc_read(t) ==
    /\ At(t, "acc_read")
    /\ th' = [th EXCEPT ![t].pc = "acc_unlock",
                        ![t].ret = Access(th[t].fn, CONFIGS, th[t].key)]
    /\ UNCHANGED <<CONFIG_NAME, CONFIG_PATH, CONFIGS, fs, exe, call, mutex>>

T_acc_unlock(t) ==
    /\ At(t, "acc_unlock")
    /\ mutex' = MutexAfterDrop(t)
    /\ th' = [th EXCEPT ![t] = IdleThread]
    /\ UNCHANGED <<CONFIG_NAME, CONFIG_PATH, CONFIGS, fs, exe, call>>

NextMT ==
    \E t \in Threads :
        \/ \E n \in MTNames : T_set_config_name(t, n)
        \/ \E p \in MTPathArgs : T_add_config_path(t, p)
        \/ T_read_config(t)
        \/ T_current_exe(t)
        \/ T_check(t)
        \/ T_scan(t)
        \/ T_lock(t)
        \/ T_load(t)
        \/ T_insert(t)
        \/ T_unlock(t)
        \/ \E fn \in MTAccessors, key \in MTKeys : T_accessor(t, fn, key)
        \/ T_acc_lock(t)
        \/ T_acc_read(t)
        \/ T_acc_unlock(t)

SpecMT == InitMT /\ [][NextMT]_vars

\* The steps of a call that has started.  A thread that can run is run
\* (weak fairness of every step but lock()), and a thread waiting in lock()
\* gets the mutex if it is free again and again (strong fairness of lock()).
\* Nothing makes a thread start a call.
Running(t) ==
    \/ T_current_exe(t)
    \/ T_check(t)
    \/ T_scan(t)
    \/ T_load(t)
    \/ T_insert(t)
    \/ T_unlock(t)
    \/ T_acc_read(t)
    \/ T_acc_unlock(t)

Locking(t) == T_lock(t) \/ T_acc_lock(t)

SpecMTFair ==
    /\ SpecMT
    /\ \A t \in Threads : WF_vars(Running(t)) /\ SF_vars(Locking(t))

---------------------------------------------------------------------------
(* What the properties of read_config are stated with. *)

\* a step of the client that is a call of read_config
ReadStep == call'.fn = "read_config"

\* a call of read_config that returned to its caller
ReadReturned == ReadStep /\ call'.outcome = Returned

HasIo(io, ev) == \E i \in 1 .. Len(io) : io[i] = ev

\* the paths a call handed to read_to_string
ReadPaths(io) == {io[i][2] : i \in {j \in 1 .. Len(io) : io[j][1] = "read_to_string"}}

\* a regular file holding a well-formed JSON object is at path p
ObjectFileAt(fsys, p) ==
    /\ Lookup(fsys, p).e = "file"
    /\ Lookup(fsys, p).c.readable
    /\ Lookup(fsys, p).c.text.t = "obj"

\* the keys of an object text, and the value the text gives a key: that of
\* its last member with the key
MemberKeys(members) == {members[i][1] : i \in 1 .. Len(members)}
MemberLit(members, k) ==
    members[Max({i \in 1 .. Len(members) : members[i][1] = k})][2]

\* the Value kind a literal parses to
KindOf(lit) ==
    CASE lit.t = "null" -> "Null" [] lit.t = "bool" -> "Bool"
      [] lit.t = "str" -> "String" [] lit.t = "num" -> "Number"
      [] lit.t = "arr" -> "Array" [] lit.t = "obj" -> "Object"

\* x is the Value of the literal
IsValueOf(x, lit) == x.t = KindOf(lit) /\ x = ParseValue(lit)

\* an integer literal that an i64 holds, and its i64
IsI64Lit(lit) ==
    /\ lit.t = "num" /\ ~lit.v.frac /\ lit.v.mag[5] = 0
    /\ IF lit.v.neg
       THEN Low64(lit.v.mag) # Zero64
            /\ (lit.v.mag[4] < Half \/ Low64(lit.v.mag) = <<0, 0, 0, Half>>)
       ELSE lit.v.mag[4] < Half
I64Of(lit) == IF lit.v.neg THEN Neg64(Low64(lit.v.mag)) ELSE Low64(lit.v.mag)

\* an array literal whose elements are all strings, and those strings
IsStrArrayLit(lit) == lit.t = "arr" /\ \A i \in 1 .. Len(lit.v) : lit.v[i].t = "str"
StringsOf(lit) == [i \in 1 .. Len(lit.v) |-> lit.v[i].v]

\* two tables hold the same keys with the same values
SameTable(m1, m2) ==
    /\ DOMAIN m1 = DOMAIN m2
    /\ \A k \in DOMAIN m1 : m1[k].t = m2[k].t /\ m1[k] = m2[k]

---------------------------------------------------------------------------
(* C1: after add_config_path(dir), set_config_name(name) and a read_config  *)
(* that returns, with a regular file holding a well-formed JSON object at  *)
(* dir/name, every top-level key of the object is in the table with the    *)
(* file's value: get returns it, get_string its string, get_int64 its      *)
(* integer (an i64 is what get_int64 returns), get_string_array its        *)
(* strings in file order.                                                  *)

C1_Post(members, configs) ==
    \A k \in MemberKeys(members) :
        LET lit == MemberLit(members, k)
        IN  /\ get(configs, k).some
            /\ IsValueOf(get(configs, k).v, lit)
            /\ lit.t = "str" => get_string(configs, k) = Some(lit.v)
            /\ IsI64Lit(lit) => get_int64(configs, k) = Some(I64Of(lit))
            /\ IsStrArrayLit(lit) => get_string_array(configs, k) = Some(StringsOf(lit))

C1_Step ==
    (/\ ReadReturned
     /\ CONFIG_NAME # <<>>
     /\ ObjectFileAt(fs, CONFIG_PATH \o CONFIG_NAME))
    => C1_Post(Lookup(fs, CONFIG_PATH \o CONFIG_NAME).c.text.v, CONFIGS')

C1_LoadedKeysPresent == [][C1_Step]_vars

\* the crate's test: the three keys of the example file, read back
C1_Witness ==
    /\ call.fn = "read_config" /\ call.outcome = Returned
    /\ CONFIG_PATH = <<"c", Sep>> /\ CONFIG_NAME = <<"f">>
    /\ HasIo(call.io, IoRead(<<"c", Sep, "f">>))
    /\ fs[<<Cwd, <<"f">>>>] = FileEntry(Library[1])
    /\ get_string(CONFIGS, "a") = Some("x")
    /\ get_int64(CONFIGS, "b") = Some(<<43, 0, 0, 0>>)
    /\ get_string_array(CONFIGS, "c") = Some(<<"p", "q">>)

---------------------------------------------------------------------------
(* C2: a read_config that parses its file leaves the table equal to the    *)
(* table before it overridden by the file's top-level pairs (a key of the  *)
(* file takes the file's value, any other key keeps its value), and no     *)
(* step of any operation removes a key from the table.                     *)

\* the file a call read and parsed as an object, if it did
ParsedFiles(io, fsys) == {p \in ReadPaths(io) : ObjectFileAt(fsys, p)}

Overridden(configs, members) ==
    [k \in (DOMAIN configs) \cup MemberKeys(members) |->
        IF k \in MemberKeys(members)
        THEN ParseValue(MemberLit(members, k))
        ELSE configs[k]]

C2_Step ==
    /\ (DOMAIN CONFIGS) \subseteq (DOMAIN CONFIGS')
    /\ ReadReturned =>
         \A p \in ParsedFiles(call'.io, fs) :
             SameTable(CONFIGS', Overridden(CONFIGS, Lookup(fs, p).c.text.v))

C2_MergeOverrides == [][C2_Step]_vars

\* the spec's example: the second version of the file was loaded over the
\* first; "a" changed, "d" was added, "b" and "c" stayed
C2_Witness ==
    /\ call.fn = "read_config" /\ call.outcome = Returned
    /\ ParsedFiles(call.io, fs) # {}
    /\ get_string(CONFIGS, "a") = Some("y")
    /\ get_bool(CONFIGS, "d") = Some(TRUE)
    /\ get_int64(CONFIGS, "b") = Some(<<43, 0, 0, 0>>)
    /\ get_string_array(CONFIGS, "c") = Some(<<"p", "q">>)

---------------------------------------------------------------------------
(* C3: a read_config that does not end in a successful parse of a          *)
(* top-level JSON object (nothing found, file unreadable, text malformed,  *)
(* top-level value not an object) leaves the table exactly as it was.      *)

C3_Step ==
    (ReadStep /\ ParsedFiles(call'.io, fs) = {}) => SameTable(CONFIGS', CONFIGS)

C3_FailedLoadAllOrNothing == [][C3_Step]_vars

\* a malformed file was read while the table held keys
C3_Witness ==
    /\ call.fn = "read_config" /\ call.outcome = Returned
    /\ \E p \in ReadPaths(call.io) :
           Lookup(fs, p).e = "file" /\ Lookup(fs, p).c.readable
           /\ Lookup(fs, p).c.text.t = "bad"
    /\ DOMAIN CONFIGS # {}

---------------------------------------------------------------------------
(* C4: no operation surfaces a failure to its caller, whatever the file    *)
(* system holds: every call returns normally.                              *)

C4_NoFailureSurfaces == call.outcome = Returned

---------------------------------------------------------------------------
(* C5: while CONFIG_NAME is empty, read_config returns having left the     *)
(* table and the stored search path unchanged and having made no file or   *)
(* directory access; before any set_config_name the table stays empty.     *)

C5_Step ==
    (ReadStep /\ CONFIG_NAME = <<>>)
    => /\ call'.outcome = Returned
       /\ call'.io = <<>>
       /\ SameTable(CONFIGS', CONFIGS)
       /\ CONFIG_PATH' = CONFIG_PATH

C5_EmptyNameNoOp == [][C5_Step]_vars

\* read_config was called after the name was set back to the empty string,
\* the table holding keys of an earlier load and a file being in place
C5_Witness ==
    /\ call.fn = "read_config" /\ CONFIG_NAME = <<>>
    /\ DOMAIN CONFIGS # {}
    /\ CONFIG_PATH # <<>>
    /\ ObjectFileAt(fs, CONFIG_PATH \o <<"f">>)

---------------------------------------------------------------------------
(* C9: in a read_config that returns: if a regular file is at              *)
(* CONFIG_PATH + CONFIG_NAME, that path is the one read, CONFIG_PATH stays *)
(* and the executable's directory is not scanned, whatever it holds;       *)
(* otherwise the directory is scanned, and if it holds an entry named      *)
(* CONFIG_NAME, CONFIG_PATH becomes that directory plus the separator and  *)
(* the file is read there, in this load and in every later one.            *)

C9_Step ==
    (ReadReturned /\ CONFIG_NAME # <<>>) =>
        /\ is_file(fs, CONFIG_PATH \o CONFIG_NAME) =>
             /\ ReadPaths(call'.io) = {CONFIG_PATH \o CONFIG_NAME}
             /\ CONFIG_PATH' = CONFIG_PATH
             /\ ~HasIo(call'.io, IoScan)
        /\ ~is_file(fs, CONFIG_PATH \o CONFIG_NAME) =>
             /\ HasIo(call'.io, IoScan)
             /\ CONFIG_NAME \in read_dir(fs, ExeDir) =>
                  /\ CONFIG_PATH' = ExeDir \o <<Sep>>
                  /\ ReadPaths(call'.io) = {ExeDir \o <<Sep>> \o CONFIG_NAME}
        /\ (CONFIG_PATH = ExeDir \o <<Sep>> /\ CONFIG_NAME \in read_dir(fs, ExeDir)) =>
             /\ CONFIG_PATH' = CONFIG_PATH
             /\ ReadPaths(call'.io) = {ExeDir \o <<Sep>> \o CONFIG_NAME}

C9_FileResolution == [][C9_Step]_vars

\* the search path named a directory without the file, the scan found it in
\* the executable's directory, and the table was loaded from there
C9_Witness ==
    /\ call.fn = "read_config" /\ call.outcome = Returned
    /\ HasIo(call.io, IoExists(<<"n", Sep, "f">>))
    /\ HasIo(call.io, IoScan)
    /\ HasIo(call.io, IoRead(<<"e", Sep, "f">>))
    /\ CONFIG_PATH = <<"e", Sep>>
    /\ DOMAIN CONFIGS # {}

---------------------------------------------------------------------------
(* What the properties of the accessors are stated with. *)

\* an accessor was called with a key of the table; the key's value
AccessedPresent == call.fn \in Accessors /\ call.arg \in DOMAIN CONFIGS
Accessed == CONFIGS[call.arg]

\* a number that is an integer in the 64-bit signed range
IsI64Value(x) ==
    /\ x.t = "Number"
    /\ \/ x.v.n = "NegInt"
       \/ x.v.n = "PosInt" /\ x.v.w[4] < Half

IntAccessors == {"get_int8", "get_i16", "get_i32", "get_int64"}
FloatAccessors == {"get_float32", "get_float64"}
ArrayAccessors ==
    {"get_string_array", "get_int64_array", "get_float64_array", "get_array"}

---------------------------------------------------------------------------
(* C6: every accessor returns absent for a key that is not in the table,   *)
(* and every typed accessor returns absent, with no coercion, for a key    *)
(* whose value is not of its type: get_string on a non-string, get_bool on *)
(* a non-boolean, the integer accessors on a non-number or on a number     *)
(* that is no integer in the 64-bit signed range, the float accessors on a *)
(* non-number, get_map on a non-object, the array accessors on a           *)
(* non-array.                                                              *)

WrongType(fn, x) ==
    \/ fn = "get_string" /\ x.t # "String"
    \/ fn = "get_bool" /\ x.t # "Bool"
    \/ fn \in IntAccessors /\ ~IsI64Value(x)
    \/ fn \in FloatAccessors /\ x.t # "Number"
    \/ fn = "get_map" /\ x.t # "Object"
    \/ fn \in ArrayAccessors /\ x.t # "Array"

C6_AbsentOnMissingOrWrongType ==
    call.fn \in Accessors =>
        /\ call.outcome = Returned
        /\ call.arg \notin DOMAIN CONFIGS => ~call.ret.some
        /\ (call.arg \in DOMAIN CONFIGS /\ WrongType(call.fn, Accessed)) => ~call.ret.some

\* get_string was called on a key holding the integer 43 and returned absent
C6_Witness ==
    /\ call.fn = "get_string" /\ call.arg = "a"
    /\ "a" \in DOMAIN CONFIGS
    /\ CONFIGS["a"].t = "Number" /\ CONFIGS["a"].v = PosInt(<<43, 0, 0, 0>>)
    /\ ~call.ret.some

---------------------------------------------------------------------------
(* C7: for a key whose value is an array, each array accessor returns      *)
(* (never absent) the elements of its kind in their original order, the    *)
(* others dropped: get_string_array the strings, get_int64_array the       *)
(* integers in the 64-bit signed range, get_float64_array the numbers,     *)
(* get_array the objects; no accepted element gives the empty sequence.    *)

IsStringElem(x) == x.t = "String"
IsNumberElem(x) == x.t = "Number"
IsObjectElem(x) == x.t = "Object"

\* the payload an accessor returns for an element it accepts
ElemPayload(fn, x) ==
    CASE fn = "get_string_array" -> x.v
      [] fn = "get_int64_array" -> x.v.w
      [] fn = "get_float64_array" -> as_f64(x.v).v
      [] fn = "get_array" -> x

Accepted(fn, arr) ==
    CASE fn = "get_string_array" -> SelectSeq(arr, IsStringElem)
      [] fn = "get_int64_array" -> SelectSeq(arr, IsI64Value)
      [] fn = "get_float64_array" -> SelectSeq(arr, IsNumberElem)
      [] fn = "get_array" -> SelectSeq(arr, IsObjectElem)

C7_ArrayAccessorsFilter ==
    (AccessedPresent /\ call.fn \in ArrayAccessors /\ Accessed.t = "Array") =>
        LET kept == Accepted(call.fn, Accessed.v)
        IN  /\ call.ret.some
            /\ Len(call.ret.v) = Len(kept)
            /\ \A i \in 1 .. Len(kept) : call.ret.v[i] = ElemPayload(call.fn, kept[i])

\* the spec's example: get_string_array on ["p", 1, "q"] returned ["p", "q"]
C7_Witness ==
    /\ call.fn = "get_string_array" /\ call.arg = "a"
    /\ "a" \in DOMAIN CONFIGS
    /\ CONFIGS["a"].t = "Array" /\ Len(CONFIGS["a"].v) = 3
    /\ CONFIGS["a"].v[1].t = "String" /\ CONFIGS["a"].v[2].t = "Number"
    /\ CONFIGS["a"].v[3].t = "String"
    /\ call.ret = Some(<<"p", "q">>)

---------------------------------------------------------------------------
(* C8: for a key whose value is an integer v in the 64-bit signed range,   *)
(* get_int8, get_i16 and get_i32 return (never absent)                     *)
(* ((v + 2^(w-1)) mod 2^w) - 2^(w-1) for w = 8, 16, 32, which is v itself  *)
(* when v fits w bits; get_int64 returns v.                                *)
(*                                                                         *)
(* v is congruent modulo 2^64, hence modulo 2^w, to its bit pattern read   *)
(* as unsigned, so v mod 2^8 and v mod 2^16 are those of the lowest limb   *)
(* and v mod 2^32 is limb 2 times 2^16 plus limb 1; for w = 32 the 2^31 is *)
(* added to limb 2 as 2^15.                                                *)

Wrapped(fn, w) ==
    CASE fn = "get_int8" -> (((w[1] % 256) + 128) % 256) - 128
      [] fn = "get_i16" -> ((w[1] + Half) % Base) - Half
      [] fn = "get_i32" -> (((w[2] + Half) % Base) - Half) * Base + w[1]

\* whether the i64 with bits w lies in -2^(n-1) .. 2^(n-1) - 1
Fits(fn, w) ==
    LET high == IF fn = "get_i32" THEN <<w[3], w[4]>> ELSE <<w[2], w[3], w[4]>>
        top == IF fn = "get_i32" THEN w[2] ELSE w[1]
        lim == IF fn = "get_int8" THEN 128 ELSE Half
    IN  \/ (\A i \in 1 .. Len(high) : high[i] = 0) /\ top < lim
        \/ (\A i \in 1 .. Len(high) : high[i] = Base - 1) /\ top >= Base - lim

\* the i64 bits of an integer of at most 32 bits
Bits64(n) ==
    IF n >= 0 THEN <<n % Base, n \div Base, 0, 0>>
    ELSE <<n % Base, (n \div Base) + Base, Base - 1, Base - 1>>

C8_IntegerNarrowing ==
    (AccessedPresent /\ call.fn \in IntAccessors /\ IsI64Value(Accessed)) =>
        /\ call.outcome = Returned
        /\ call.ret.some
        /\ IF call.fn = "get_int64"
           THEN call.ret.v = Accessed.v.w
           ELSE /\ call.ret.v = Wrapped(call.fn, Accessed.v.w)
                /\ Fits(call.fn, Accessed.v.w) => Bits64(call.ret.v) = Accessed.v.w

\* get_int8 on 300 returned 44
C8_Witness ==
    /\ call.fn = "get_int8" /\ call.arg = "a"
    /\ "a" \in DOMAIN CONFIGS
    /\ CONFIGS["a"].t = "Number" /\ CONFIGS["a"].v = PosInt(<<300, 0, 0, 0>>)
    /\ call.ret = Some(44)

---------------------------------------------------------------------------
(* C10 as stated: each key insertion of the merge is a critical section of *)
(* its own, so that an accessor waiting for the lock while a load has      *)
(* merged some of its file's keys and not yet the others can take the lock *)
(* and see the partly merged table.                                        *)

\* thread t has inserted some of the pairs it parsed and not yet the rest
MidMerge(t) ==
    /\ th[t].pc = "rc_insert"
    /\ \E j \in 1 .. (th[t].i - 1) : KeyOrder[j] \in DOMAIN th[t].configs
    /\ \E j \in th[t].i .. Len(KeyOrder) : KeyOrder[j] \in DOMAIN th[t].configs

C10_InsertionsAreSeparateSections ==
    \A t \in Threads, r \in Threads :
        (MidMerge(t) /\ r # t /\ th[r].pc = "acc_lock") => mutex = NoThread

(* C10 as amended: the merge of a load is one critical section; whenever   *)
(* an accessor reads the table, no load has merged only part of its file's *)
(* keys, and a load that is between two insertions holds the lock.         *)

C10_MergeIsAtomic ==
    \A t \in Threads :
        MidMerge(t) =>
            /\ mutex = t
            /\ \A r \in Threads \ {t} : th[r].pc \notin {"acc_read", "acc_unlock"}

\* a load is between two insertions while an accessor waits for the lock
C10_Witness ==
    \E t \in Threads, r \in Threads :
        /\ MidMerge(t) /\ r # t
        /\ th[r].pc = "acc_lock"
        /\ "a" \in DOMAIN CONFIGS /\ "c" \notin DOMAIN CONFIGS
        /\ "c" \in DOMAIN th[t].configs

---------------------------------------------------------------------------
(* C11 as stated: add_config_path(p) stores p when p ends with the         *)
(* separator and p followed by one separator otherwise, forgetting the     *)
(* path stored before; and the stored search path ends with the separator  *)
(* in every state.                                                         *)

\* a step of the client that is a call of add_config_path
AddStep == call'.fn = "add_config_path"

\* what a call of add_config_path leaves in CONFIG_PATH
C11_Step ==
    AddStep =>
        /\ ends_with(call'.arg, Sep) => CONFIG_PATH' = call'.arg
        /\ ~ends_with(call'.arg, Sep) =>
              /\ Len(CONFIG_PATH') = Len(call'.arg) + 1
              /\ SubSeq(CONFIG_PATH', 1, Len(call'.arg)) = call'.arg
              /\ CONFIG_PATH'[Len(CONFIG_PATH')] = Sep
        /\ UNCHANGED <<CONFIG_NAME, CONFIGS>>

C11_PathAlwaysEndsWithSeparator == ends_with(CONFIG_PATH, Sep)

(* C11 as amended: add_config_path(p) stores p when p ends with the        *)
(* separator and p followed by one separator otherwise, forgetting the     *)
(* path stored before; the stored search path is the empty string until a  *)
(* call of add_config_path or a match of the scan sets it, and ends with   *)
(* the separator from then on.                                             *)

C11_PathEmptyOrNormalized ==
    /\ [](CONFIG_PATH = <<>> \/ ends_with(CONFIG_PATH, Sep))
    /\ [][C11_Step]_vars
    /\ [][CONFIG_PATH # <<>> => CONFIG_PATH' # <<>>]_vars

\* add_config_path has appended the separator to its argument, replacing
\* the path a load was made with
C11_Witness ==
    /\ call.fn = "add_config_path"
    /\ call.arg = <<"n">>
    /\ CONFIG_PATH = <<"n", Sep>>
    /\ "a" \in DOMAIN CONFIGS

---------------------------------------------------------------------------
(* C12: in every interleaving of threads calling read_config and the       *)
(* accessors, a thread is between lock() and the drop of its guard only    *)
(* while it is the holder of the mutex, so at most one thread is; the      *)
(* table is written only by the holder, in the insert loop of its load,    *)
(* read only by the holder, and the holder keeps the mutex from the read   *)
(* of the file to the last insertion of the merge.                         *)

\* thread t is between lock() and the drop of its guard
InCriticalSection(t) ==
    th[t].pc \in {"rc_load", "rc_insert", "rc_unlock", "acc_read", "acc_unlock"}

\* thread t reads the table in this step
ReadsTable(t) == th[t].pc = "acc_read" /\ th'[t].pc # "acc_read"

\* thread t goes on with the load or the merge in this step
MergeStep(t) ==
    /\ th[t].pc \in {"rc_load", "rc_insert"}
    /\ th'[t].pc \in {"rc_insert", "rc_unlock"}

C12_TableAccessUnderLock ==
    /\ [](\A t \in Threads : InCriticalSection(t) => mutex = t)
    /\ [](Cardinality({t \in Threads : InCriticalSection(t)}) <= 1)
    /\ [][CONFIGS' # CONFIGS =>
            \E t \in Threads : mutex = t /\ th[t].pc = "rc_insert"]_vars
    /\ [][\A t \in Threads : ReadsTable(t) => mutex = t /\ mutex' = t]_vars
    /\ [][\A t \in Threads : MergeStep(t) => mutex = t /\ mutex' = t]_vars

\* a load is between two insertions, holding the mutex, while another load
\* and an accessor (with three threads) or one of them wait in lock()
C12_Witness ==
    \E t \in Threads, r \in Threads :
        /\ MidMerge(t) /\ mutex = t /\ r # t
        /\ th[r].pc = "rc_lock"
        /\ "a" \in DOMAIN CONFIGS

---------------------------------------------------------------------------
(* C13: no operation blocks for ever.  Under fair scheduling every call    *)
(* that has started ends (it returns, or read_config panics before it      *)
(* takes the lock); a call takes the mutex only in its lock(), where it    *)
(* does not hold it yet, and whoever holds the mutex is on the way to the  *)
(* drop of its guard, so that no state is reached in which threads wait    *)
(* for a mutex that is never released.                                     *)

\* thread t is in no call: it has returned, or its call has panicked
Ended(t) == th[t].pc \in {"idle", "panicked"}

\* thread t waits in lock()
Waiting(t) == th[t].pc \in {"rc_lock", "acc_lock"}

---------------------------------------------------------------------------
(* C14: the file a read_config merges is the one it resolved.  Whenever a  *)
(* load is merging the pairs it parsed, the path it read them from is the  *)
(* path whose existence the same call established (CONFIG_PATH +           *)
(* CONFIG_NAME at the check, or the match of the scan), or another         *)
(* spelling of it that names the same file, whatever other threads called  *)
(* in between.                                                             *)

C14_MergedFileIsResolvedFile ==
    \A t \in Threads :
        th[t].pc = "rc_insert" => Locate(th[t].read) = Locate(th[t].checked)

===========================================================================
